---- MODULE Spec2Model ----
(***************************************************************************)
(* A model of the data-handling code of Workshop/sessions/16_QA.ipynb:     *)
(* tokenize, parse_stories, get_stories, vectorize_stories, the notebook's *)
(* top-level cells (download, parse, vocabulary, vectorize, ask_qa).       *)
(* The notebook runs under a Python 2 kernel (lines 392-407), so the       *)
(* library calls are modelled with their Python 2.7 behaviour.             *)
(*                                                                         *)
(* Strings are sequences of one-character strings; a token is a string, a  *)
(* tokenized sentence a sequence of tokens.                                *)
(***************************************************************************)
EXTENDS Integers, Sequences, FiniteSets, TLC

VARIABLES
    \* tokenize(sent): the argument, the returned list, the call's position
    sent, tokens, tpc,
    \* get_stories / parse_stories: the lines of f read so far, the arguments
    \* only_supporting and max_length, the locals story and data, the list
    \* get_stories returns, the call's position and the exception raised
    lines, only_supporting, max_length, story, data, result, ppc, error,
    \* the notebook's cells: the position, what the except clause printed,
    \* the exception it caught, the exception that ended the run, and the
    \* globals path, tar, train, test, vocab, vocab_size, word_idx,
    \* story_maxlen, query_maxlen, X, Xq, Y, tX, tXq, tY; trainFile and
    \* testFile are the lines of the two members of the tarball
    pc, printed, caught, uncaught, path, tar, trainFile, testFile, train, test,
    vocab, vocab_size, word_idx, story_maxlen, query_maxlen,
    X, Xq, Y, tX, tXq, tY,
    \* ask_qa: its arguments and the locals t_story and t_query
    ask_story, ask_query, t_story, t_query

tokVars == <<sent, tokens, tpc>>
parseVars == <<lines, only_supporting, max_length, story, data, result, ppc, error>>
runVars == <<pc, printed, caught, uncaught, path, tar, trainFile, testFile>>
globalVars == <<train, test, vocab, vocab_size, word_idx, story_maxlen, query_maxlen>>
vecVars == <<X, Xq, Y, tX, tXq, tY>>
askVars == <<ask_story, ask_query, t_story, t_query>>
cellVars == <<runVars, globalVars, vecVars, askVars>>
vars == <<tokVars, parseVars, cellVars>>

----------------------------------------------------------------------------
(* The values of the variables before the code that writes them has run *)

\* No dict: the value of word_idx before line 229 runs.
NoDict == [w \in {} |-> 0]

CellsIdle ==
    /\ pc = "idle"
    /\ printed = <<>>
    /\ caught = "none"
    /\ uncaught = "none"
    /\ path = "none"
    /\ tar = "none"
    /\ trainFile = <<>>
    /\ testFile = <<>>
    /\ train = <<>>
    /\ test = <<>>
    /\ vocab = <<>>
    /\ vocab_size = 0
    /\ word_idx = NoDict
    /\ story_maxlen = 0
    /\ query_maxlen = 0
    /\ X = <<>> /\ Xq = <<>> /\ Y = <<>>
    /\ tX = <<>> /\ tXq = <<>> /\ tY = <<>>
    /\ ask_story = <<>> /\ ask_query = <<>>
    /\ t_story = <<>> /\ t_query = <<>>

ParseIdle ==
    /\ lines = <<>>
    /\ only_supporting = FALSE
    /\ max_length = 0
    /\ story = <<>>
    /\ data = <<>>
    /\ result = <<>>
    /\ ppc = "idle"
    /\ error = "none"

TokIdle ==
    /\ sent = <<>>
    /\ tokens = <<>>
    /\ tpc = "idle"

RunIdle ==
    /\ printed = <<>>
    /\ caught = "none"
    /\ uncaught = "none"
    /\ path = "none"
    /\ tar = "none"
    /\ X = <<>> /\ Xq = <<>> /\ Y = <<>>
    /\ tX = <<>> /\ tXq = <<>> /\ tY = <<>>
    /\ ask_story = <<>> /\ ask_query = <<>>
    /\ t_story = <<>> /\ t_query = <<>>

----------------------------------------------------------------------------
(* Characters *)

\* The characters \w matches among those of the model's strings: letters,
\* digits and the underscore; \W matches every other character.
WordChars ==
    {"a", "b", "c", "B", "o", "d", "r", "p", "e", "t", "h", "l", "W", "i", "s",
     "0", "1", "2", "3", "4", "5", "6", "7", "8", "9", "_"}
\* Characters str.strip() removes.
Whitespace == {" ", "\t", "\n"}

IsWordChar(c) == c \in WordChars
IsSpace(c) == c \in Whitespace

----------------------------------------------------------------------------
(* tokenize *)

\* Length of the longest run starting at s[i] whose characters all have
\* word-ness w.
RECURSIVE RunLen(_, _, _)
RunLen(s, i, w) ==
    IF i > Len(s) \/ IsWordChar(s[i]) # w THEN 0 ELSE 1 + RunLen(s, i + 1, w)

\* re.split('(\W+)?', s) under Python 2.7: an empty match never splits, so
\* the string is cut at each maximal run of \W characters, and the capturing
\* group puts each run in the result: <<word, sep, word, ..., word>>, where
\* the first and the last word may be empty.
RECURSIVE re_split_from(_, _)
re_split_from(s, i) ==
    LET n == RunLen(s, i, TRUE)
        j == i + n
    IN  IF j > Len(s)
        THEN <<SubSeq(s, i, j - 1)>>
        ELSE LET m == RunLen(s, j, FALSE)
             IN  <<SubSeq(s, i, j - 1), SubSeq(s, j, j + m - 1)>>
                     \o re_split_from(s, j + m)

re_split(s) == re_split_from(s, 1)

\* str.lstrip / str.rstrip / str.strip
RECURSIVE lstrip(_)
lstrip(x) == IF x # <<>> /\ IsSpace(Head(x)) THEN lstrip(Tail(x)) ELSE x

RECURSIVE rstrip(_)
rstrip(x) ==
    IF x # <<>> /\ IsSpace(x[Len(x)]) THEN rstrip(SubSeq(x, 1, Len(x) - 1)) ELSE x

strip(x) == rstrip(lstrip(x))

\* [f(x) for x in s]
StripAll(s) == [k \in 1..Len(s) |-> strip(s[k])]

NonEmpty(x) == x # <<>>

\* The mutant of tokenize: the "if x.strip()" filter left out.
tokenize_nofilter(s) == StripAll(re_split(s))

\* tokenize: [x.strip() for x in re.split('(\W+)?', sent) if x.strip()]
tokenize(s) == SelectSeq(StripAll(re_split(s)), NonEmpty)

----------------------------------------------------------------------------
(* Inputs of the tokenizer specification *)

MaxSentLen == 4

SentAlphabet == {"a", "b", " ", "."}

RECURSIVE SeqsUpTo(_, _)
SeqsUpTo(S, n) ==
    IF n = 0 THEN {<<>>}
    ELSE LET shorter == SeqsUpTo(S, n - 1)
         IN  shorter \cup {Append(s, c) : s \in {t \in shorter : Len(t) = n - 1}, c \in S}

\* The sentence of tokenize's docstring and the result it documents.
DocSent ==
    <<"B","o","b"," ","d","r","o","p","p","e","d"," ","t","h","e"," ",
      "a","p","p","l","e","."," ","W","h","e","r","e"," ","i","s"," ",
      "t","h","e"," ","a","p","p","l","e","?">>

DocTokens ==
    << <<"B","o","b">>, <<"d","r","o","p","p","e","d">>, <<"t","h","e">>,
       <<"a","p","p","l","e">>, <<".">>, <<"W","h","e","r","e">>, <<"i","s">>,
       <<"t","h","e">>, <<"a","p","p","l","e">>, <<"?">> >>

TokInit ==
    /\ ParseIdle
    /\ CellsIdle
    /\ sent \in SeqsUpTo(SentAlphabet, MaxSentLen) \cup {DocSent}
    /\ tokens = <<>>
    /\ tpc = "call"

\* One call of tokenize(sent).
Tokenize ==
    /\ tpc = "call"
    /\ tokens' = tokenize(sent)
    /\ tpc' = "returned"
    /\ UNCHANGED <<sent, parseVars, cellVars>>

TokNext == Tokenize

SpecTok == TokInit /\ [][TokNext]_vars

----------------------------------------------------------------------------
(* Python string and list helpers used by parse_stories *)

Digits == <<"0", "1", "2", "3", "4", "5", "6", "7", "8", "9">>
IsDigit(c) == \E d \in 1..10 : Digits[d] = c
DigitVal(c) == (CHOOSE d \in 1..10 : Digits[d] = c) - 1

\* int(s) raises ValueError unless s is a decimal numeral.
int_raises(s) == s = <<>> \/ \E k \in 1..Len(s) : ~IsDigit(s[k])

RECURSIVE int(_)
int(s) ==
    IF Len(s) = 1 THEN DigitVal(s[1])
    ELSE 10 * int(SubSeq(s, 1, Len(s) - 1)) + DigitVal(s[Len(s)])

Contains(s, c) == \E k \in 1..Len(s) : s[k] = c
FirstIndex(s, c) == CHOOSE k \in 1..Len(s) : s[k] = c /\ \A m \in 1..(k - 1) : s[m] # c

\* s.split(c, 1)
split1(s, c) ==
    IF ~Contains(s, c) THEN <<s>>
    ELSE LET k == FirstIndex(s, c)
         IN  <<SubSeq(s, 1, k - 1), SubSeq(s, k + 1, Len(s))>>

\* s.split(c)
RECURSIVE split(_, _)
split(s, c) ==
    IF ~Contains(s, c) THEN <<s>>
    ELSE LET k == FirstIndex(s, c)
         IN  <<SubSeq(s, 1, k - 1)>> \o split(SubSeq(s, k + 1, Len(s)), c)

RECURSIVE NonSpaceRun(_, _)
NonSpaceRun(s, i) ==
    IF i > Len(s) \/ IsSpace(s[i]) THEN 0 ELSE 1 + NonSpaceRun(s, i + 1)

\* s.split(): the maximal runs of non-whitespace characters
RECURSIVE split_ws(_)
split_ws(s) ==
    LET t == lstrip(s)
        n == NonSpaceRun(t, 1)
    IN  IF t = <<>> THEN <<>>
        ELSE <<SubSeq(t, 1, n)>> \o split_ws(SubSeq(t, n + 1, Len(t)))

\* seq[j] of a Python list, j counted from 0, a negative j from the end.
PyIndexRaises(seq, j) == j >= Len(seq) \/ j < -Len(seq)
PyIndex(seq, j) == IF j >= 0 THEN seq[j + 1] ELSE seq[Len(seq) + j + 1]

----------------------------------------------------------------------------
(* parse_stories: the body of "for line in lines" *)

\* The '' that line 105 appends for a question line. A tokenized sentence is
\* never empty (the stripped line has text after its number), so the empty
\* sequence stands for '' alone; both are false in "if x" (line 103).
Placeholder == <<>>

\* line 88: line.decode('utf-8').strip()
Stripped(raw) == strip(raw)
\* line 89: nid, line = line.split(' ', 1)
Parts(raw) == split1(Stripped(raw), " ")
\* line 90: nid = int(nid)
Nid(raw) == int(Parts(raw)[1])
Text(raw) == Parts(raw)[2]
\* line 93: '\t' in line
IsQuestion(raw) == Contains(Text(raw), "\t")
\* line 94: q, a, supporting = line.split('\t')
Fields(raw) == split(Text(raw), "\t")
Query(raw) == tokenize(Fields(raw)[1])
Answer(raw) == Fields(raw)[2]
\* line 99: supporting = map(int, supporting.split())
SupportingChunks(raw) == split_ws(Fields(raw)[3])
Supporting(raw) ==
    [k \in 1..Len(SupportingChunks(raw)) |-> int(SupportingChunks(raw)[k])]

\* The mutant of StoryAtLine: the buffer is never reset.
StoryNeverReset(nid, st) == st

\* lines 91-92: if nid == 1: story = []
StoryAtLine(nid, st) == IF nid = 1 THEN <<>> ELSE st

\* The mutant of SupportingStory: story[i] for story[i - 1].
SupportingStoryOffByOne(st, supporting) ==
    [k \in 1..Len(supporting) |->
        IF PyIndexRaises(st, supporting[k]) THEN Placeholder
        ELSE PyIndex(st, supporting[k])]

\* line 100: substory = [story[i - 1] for i in supporting]
SupportingStory(st, supporting) ==
    [k \in 1..Len(supporting) |-> PyIndex(st, supporting[k] - 1)]

\* line 103: substory = [x for x in story if x]
AllStory(st) == SelectSeq(st, NonEmpty)

\* The exception the body raises on raw, "none" when it raises none:
\* the unpackings of lines 89 and 94, int of lines 90 and 99, story[i - 1].
LineError(st, raw, os) ==
    IF Len(Parts(raw)) # 2 \/ int_raises(Parts(raw)[1]) THEN "ValueError"
    ELSE IF ~IsQuestion(raw) THEN "none"
    ELSE IF Len(Fields(raw)) # 3 THEN "ValueError"
    ELSE IF ~os THEN "none"
    ELSE IF \E k \in 1..Len(SupportingChunks(raw)) : int_raises(SupportingChunks(raw)[k])
         THEN "ValueError"
    ELSE IF \E k \in 1..Len(Supporting(raw)) :
                PyIndexRaises(StoryAtLine(Nid(raw), st), Supporting(raw)[k] - 1)
         THEN "IndexError"
    ELSE "none"

\* lines 94-104: the triple appended to data
Triple(st, raw, os) ==
    <<IF os THEN SupportingStory(StoryAtLine(Nid(raw), st), Supporting(raw))
            ELSE AllStory(StoryAtLine(Nid(raw), st)),
      Query(raw), Answer(raw)>>

\* line 105: story.append('')
StoryAfterQuestion(st, raw) == Append(StoryAtLine(Nid(raw), st), Placeholder)

\* lines 107-108: story.append(tokenize(line))
StoryAfterSentence(st, raw) == Append(StoryAtLine(Nid(raw), st), tokenize(Text(raw)))

----------------------------------------------------------------------------
(* get_stories, line 127-128 *)

\* x + y of line 127 raises TypeError for a list and a str.
AddRaises(x, y) == (x = Placeholder) # (y = Placeholder)

\* reduce(lambda x, y: x + y, data) raises TypeError for an empty data (no
\* initial value) and when an addition raises.
RECURSIVE reduce_raises(_, _)
reduce_raises(acc, rest) ==
    IF rest = <<>> THEN FALSE
    ELSE IF AddRaises(acc, Head(rest)) THEN TRUE
    ELSE reduce_raises(acc \o Head(rest), Tail(rest))

flatten_raises(st) == IF st = <<>> THEN TRUE ELSE reduce_raises(Head(st), Tail(st))

RECURSIVE reduce(_, _)
reduce(acc, rest) ==
    IF rest = <<>> THEN acc ELSE reduce(acc \o Head(rest), Tail(rest))

flatten(st) == reduce(Head(st), Tail(st))

\* line 128: not max_length or len(flatten(story)) < max_length
\* (max_length None and max_length 0 are both false; 0 stands for both)
Keeps(st, ml) == ml = 0 \/ Len(flatten(st)) < ml

\* line 128: the list get_stories returns
Flattened(d, ml) ==
    LET kept == SelectSeq(d, LAMBDA t : Keeps(t[1], ml))
    IN  [k \in 1..Len(kept) |-> <<flatten(kept[k][1]), kept[k][2], kept[k][3]>>]

----------------------------------------------------------------------------
(* Inputs of the parser specification *)

MaxLines == 4
MaxMaxLength == 2

NarrativeTexts == { <<"a">>, <<"b", " ", "a", ".">> }
QuestionText == <<"b", "?">>
AnswerText == <<"a">>
SupportingTexts == { <<"1">>, <<"2">>, <<"2", " ", "1">>, <<"3", " ", "1">> }
QuestionTexts ==
    {QuestionText \o <<"\t">> \o AnswerText \o <<"\t">> \o s : s \in SupportingTexts}
\* A question line whose supporting-fact field is empty: the strip of line 88
\* removes its trailing tab.
MalformedTexts == {QuestionText \o <<"\t">> \o AnswerText \o <<"\t">>}
LineTexts == NarrativeTexts \cup QuestionTexts \cup MalformedTexts

\* The lines f.readlines() may give next: numbered on from the last line, or
\* numbered 1 (a new episode); each ends with its newline.
NextNids == IF lines = <<>> THEN {1} ELSE {1, Nid(lines[Len(lines)]) + 1}
NextRaws == {<<Digits[n + 1], " ">> \o t \o <<"\n">> : n \in NextNids, t \in LineTexts}

ParseInit ==
    /\ TokIdle
    /\ CellsIdle
    /\ lines = <<>>
    /\ only_supporting \in BOOLEAN
    /\ max_length = 0
    /\ story = <<>>
    /\ data = <<>>
    /\ result = <<>>
    /\ ppc = "loop"
    /\ error = "none"

\* One iteration of the loop on a narrative line.
ReadSentence ==
    /\ ppc = "loop"
    /\ Len(lines) < MaxLines
    /\ \E raw \in NextRaws :
        /\ LineError(story, raw, only_supporting) = "none"
        /\ ~IsQuestion(raw)
        /\ lines' = Append(lines, raw)
        /\ story' = StoryAfterSentence(story, raw)
    /\ UNCHANGED <<only_supporting, max_length, data, result, ppc, error, tokVars, cellVars>>

\* One iteration of the loop on a question line.
ReadQuestion ==
    /\ ppc = "loop"
    /\ Len(lines) < MaxLines
    /\ \E raw \in NextRaws :
        /\ LineError(story, raw, only_supporting) = "none"
        /\ IsQuestion(raw)
        /\ lines' = Append(lines, raw)
        /\ data' = Append(data, Triple(story, raw, only_supporting))
        /\ story' = StoryAfterQuestion(story, raw)
    /\ UNCHANGED <<only_supporting, max_length, result, ppc, error, tokVars, cellVars>>

\* One iteration of the loop that raises: nothing catches it.
ReadRaises ==
    /\ ppc = "loop"
    /\ Len(lines) < MaxLines
    /\ \E raw \in NextRaws :
        /\ LineError(story, raw, only_supporting) # "none"
        /\ lines' = Append(lines, raw)
        /\ error' = LineError(story, raw, only_supporting)
    /\ ppc' = "raised"
    /\ UNCHANGED <<only_supporting, max_length, story, data, result, tokVars, cellVars>>

\* line 109: the lines are exhausted, parse_stories returns data.
ParseReturn ==
    /\ ppc = "loop"
    /\ ppc' = "parsed"
    /\ UNCHANGED <<lines, only_supporting, max_length, story, data, result, error, tokVars, cellVars>>

\* lines 127-129 with no flatten raising: get_stories returns.
GetStoriesReturn ==
    /\ ppc = "parsed"
    /\ \A k \in 1..Len(data) : ~flatten_raises(data[k][1])
    /\ \E ml \in 0..MaxMaxLength :
        /\ max_length' = ml
        /\ result' = Flattened(data, ml)
    /\ ppc' = "returned"
    /\ UNCHANGED <<lines, only_supporting, story, data, error, tokVars, cellVars>>

\* lines 127-128 with a flatten raising TypeError.
GetStoriesRaises ==
    /\ ppc = "parsed"
    /\ \E k \in 1..Len(data) : flatten_raises(data[k][1])
    /\ \E ml \in 0..MaxMaxLength : max_length' = ml
    /\ ppc' = "raised"
    /\ error' = "TypeError"
    /\ UNCHANGED <<lines, only_supporting, story, data, result, tokVars, cellVars>>

ParseNext ==
    \/ ReadSentence
    \/ ReadQuestion
    \/ ReadRaises
    \/ ParseReturn
    \/ GetStoriesReturn
    \/ GetStoriesRaises

SpecParse == ParseInit /\ [][ParseNext]_vars

----------------------------------------------------------------------------
(* What the lines read so far say, for the properties of the parser *)

Indices(n) == [k \in 1..n |-> k]

\* The positions in lines of the question lines, in order: data[j] is the
\* triple of the line at QuestionPositions[j].
QuestionPositions == SelectSeq(Indices(Len(lines)), LAMBDA k : IsQuestion(lines[k]))

\* The position of the line numbered 1 that starts the episode of line p.
EpisodeStart(p) ==
    CHOOSE k \in 1..p :
        /\ Nid(lines[k]) = 1
        /\ \A m \in (k + 1)..p : Nid(lines[m]) # 1

\* The positions of the narrative lines of p's episode that come before p
\* and carry a smaller line number.
NarrativeBefore(p) ==
    SelectSeq(Indices(p - 1),
              LAMBDA k : /\ k >= EpisodeStart(p)
                         /\ ~IsQuestion(lines[k])
                         /\ Nid(lines[k]) < Nid(lines[p]))

SentenceAt(k) == tokenize(Text(lines[k]))
SentencesBefore(p) ==
    [k \in 1..Len(NarrativeBefore(p)) |-> SentenceAt(NarrativeBefore(p)[k])]

RECURSIVE IsSubsequence(_, _)
IsSubsequence(a, b) ==
    IF a = <<>> THEN TRUE
    ELSE IF b = <<>> THEN FALSE
    ELSE IF Head(a) = Head(b) THEN IsSubsequence(Tail(a), Tail(b))
    ELSE IsSubsequence(a, Tail(b))

RECURSIVE ConcatAll(_)
ConcatAll(ss) == IF ss = <<>> THEN <<>> ELSE Head(ss) \o ConcatAll(Tail(ss))

\* C1: with only_supporting false, the story of every emitted triple is made
\* only of sentences of the question's own episode whose line numbers are
\* smaller than the question's, each taken at most once and in line order:
\* no sentence of an earlier episode, none that follows the question.
C1_StoryOnlyEarlierSameEpisode ==
    ~only_supporting =>
        \A j \in 1..Len(data) :
            IsSubsequence(data[j][1], SentencesBefore(QuestionPositions[j]))

\* A question of a second episode with a sentence before it, after a first
\* episode that had a sentence too.
C1_Witness ==
    /\ ~only_supporting
    /\ \E j \in 1..Len(data) :
        LET p == QuestionPositions[j]
        IN  /\ EpisodeStart(p) > 1
            /\ ~IsQuestion(lines[1])
            /\ data[j][1] # <<>>

\* The position of the line numbered n in the episode of line p.
PositionOfNumber(p, n) == EpisodeStart(p) + n - 1

\* The supporting-fact indices of the question at p all number narrative
\* lines of its episode that precede it.
SupportingWellFormed(p) ==
    \A k \in 1..Len(Supporting(lines[p])) :
        LET n == Supporting(lines[p])[k]
        IN  /\ n >= 1
            /\ n < Nid(lines[p])
            /\ ~IsQuestion(lines[PositionOfNumber(p, n)])

\* C6: in only-supporting mode the story of a question is exactly the
\* sentences numbered by its supporting-fact indices, in the listed order;
\* and while the loop runs the buffer holds one entry per line of the
\* episode read so far (length n - 1 before the line numbered n).
C6_SupportingFactsByLineNumber ==
    /\ ppc = "loop" =>
           Len(story) = (IF lines = <<>> THEN 0 ELSE Nid(lines[Len(lines)]))
    /\ only_supporting =>
           \A j \in 1..Len(data) :
               LET p == QuestionPositions[j]
                   S == Supporting(lines[p])
               IN  SupportingWellFormed(p) =>
                       data[j][1] = [k \in 1..Len(S) |-> SentenceAt(PositionOfNumber(p, S[k]))]

\* A question listing the facts 3 and 1, in that order, with a question line
\* between them in the episode.
C6_Witness ==
    /\ only_supporting
    /\ \E j \in 1..Len(data) :
        LET p == QuestionPositions[j]
        IN  /\ Supporting(lines[p]) = <<3, 1>>
            /\ SupportingWellFormed(p)
            /\ IsQuestion(lines[PositionOfNumber(p, 2)])
            /\ data[j][1] = <<SentenceAt(PositionOfNumber(p, 3)), SentenceAt(PositionOfNumber(p, 1))>>
            /\ SentenceAt(PositionOfNumber(p, 3)) # SentenceAt(PositionOfNumber(p, 1))

\* The triple the data model describes for the question line at p.
ExpectedTriple(p) ==
    <<ConcatAll(SentencesBefore(p)), Query(lines[p]), Answer(lines[p])>>

ExpectedTriples ==
    [j \in 1..Len(QuestionPositions) |-> ExpectedTriple(QuestionPositions[j])]

\* get_stories has been called on lines that parse_stories accepts and has
\* ended, by returning or by raising at lines 127-128.
GetStoriesEnded ==
    \/ ppc = "returned"
    \/ ppc = "raised" /\ error = "TypeError"

\* C7: get_stories without max_length (and with only_supporting false)
\* returns one triple per question line, in input order, whose story is the
\* concatenation of the tokens of the narrative sentences before the
\* question in its episode.
C7_OneTriplePerQuestion ==
    (GetStoriesEnded /\ ~only_supporting /\ max_length = 0) =>
        /\ ppc = "returned"
        /\ result = ExpectedTriples

\* What the code does for C7: whenever it returns, it returns those triples.
GetStoriesReturnsExpected ==
    (ppc = "returned" /\ ~only_supporting /\ max_length = 0) =>
        result = ExpectedTriples

\* It raises exactly when some question has no narrative sentence before it.
GetStoriesRaisesOnEmptyStory ==
    (GetStoriesEnded /\ ~only_supporting) =>
        (ppc = "raised" <=>
            \E j \in 1..Len(QuestionPositions) : SentencesBefore(QuestionPositions[j]) = <<>>)

\* C5: with max_length supplied, get_stories keeps exactly the stories of at
\* most max_length tokens and drops exactly the longer ones.
C5_DropsOnlyLongerStories ==
    (ppc = "returned" /\ max_length # 0) =>
        result = LET kept == SelectSeq(data, LAMBDA t : Len(flatten(t[1])) <= max_length)
                 IN  [k \in 1..Len(kept) |-> <<flatten(kept[k][1]), kept[k][2], kept[k][3]>>]

\* What the code does for C5: it keeps the stories shorter than max_length.
GetStoriesKeepsShorter ==
    (ppc = "returned" /\ max_length # 0) =>
        result = LET kept == SelectSeq(data, LAMBDA t : Len(flatten(t[1])) < max_length)
                 IN  [k \in 1..Len(kept) |-> <<flatten(kept[k][1]), kept[k][2], kept[k][3]>>]

----------------------------------------------------------------------------
(* Properties of tokenize *)

HasSpace(x) == \E k \in 1..Len(x) : IsSpace(x[k])
NoSpaces(x) == SelectSeq(x, LAMBDA c : ~IsSpace(c))

\* sent[i..j] is a maximal run of word characters.
IsMaximalWordRun(i, j) ==
    /\ i <= j
    /\ \A k \in i..j : IsWordChar(sent[k])
    /\ (i = 1 \/ ~IsWordChar(sent[i - 1]))
    /\ (j = Len(sent) \/ ~IsWordChar(sent[j + 1]))

\* sent[i..j] is a run of non-word characters.
IsNonWordRun(i, j) ==
    /\ i <= j
    /\ \A k \in i..j : ~IsWordChar(sent[k])

\* The token is a maximal run of word characters of sent, or the stripped
\* text of a run of non-word characters of sent.
IsTokenOfSent(x) ==
    \E i \in 1..Len(sent) : \E j \in i..Len(sent) :
        \/ IsMaximalWordRun(i, j) /\ x = SubSeq(sent, i, j)
        \/ IsNonWordRun(i, j) /\ x = strip(SubSeq(sent, i, j))

\* The docstring's example, the shape of every token, and the order: the
\* tokens, put together, are the sentence with its whitespace removed.
TokensKeepOrderAndShape ==
    /\ sent = DocSent => tokens = DocTokens
    /\ \A k \in 1..Len(tokens) : IsTokenOfSent(tokens[k])
    /\ NoSpaces(ConcatAll(tokens)) = NoSpaces(sent)

\* C2 as stated: the docstring's example holds, the tokens keep their order
\* and shape, and no returned token is empty or contains whitespace.
C2_NoTokenContainsWhitespace ==
    tpc = "returned" =>
        /\ TokensKeepOrderAndShape
        /\ \A k \in 1..Len(tokens) : tokens[k] # <<>> /\ ~HasSpace(tokens[k])

\* C2 as amended: the docstring's example holds, the tokens keep their order
\* and shape, and no returned token is empty or begins or ends with
\* whitespace (whitespace inside a run of non-word characters stays).
C2_NoTokenEmptyOrUnstripped ==
    tpc = "returned" =>
        /\ TokensKeepOrderAndShape
        /\ \A k \in 1..Len(tokens) :
            /\ tokens[k] # <<>>
            /\ ~IsSpace(tokens[k][1])
            /\ ~IsSpace(tokens[k][Len(tokens[k])])

\* The docstring's sentence has been tokenized.
C2_Witness ==
    /\ tpc = "returned"
    /\ sent = DocSent
    /\ tokens = DocTokens

----------------------------------------------------------------------------
(* parse_stories and get_stories as the cells call them: on a whole file *)

RECURSIVE parse_from(_, _, _, _, _)
parse_from(ls, k, st, d, os) ==
    IF k > Len(ls) THEN [error |-> "none", data |-> d]
    ELSE IF LineError(st, ls[k], os) # "none"
         THEN [error |-> LineError(st, ls[k], os), data |-> <<>>]
    ELSE IF IsQuestion(ls[k])
         THEN parse_from(ls, k + 1, StoryAfterQuestion(st, ls[k]),
                         Append(d, Triple(st, ls[k], os)), os)
    ELSE parse_from(ls, k + 1, StoryAfterSentence(st, ls[k]), d, os)

\* lines 81-109
parse_stories(ls, os) == parse_from(ls, 1, <<>>, <<>>, os)

\* lines 122-129
get_stories(f, os, ml) ==
    LET parsed == parse_stories(f, os)
    IN  IF parsed.error # "none" THEN parsed
        ELSE IF \E k \in 1..Len(parsed.data) : flatten_raises(parsed.data[k][1])
             THEN [error |-> "TypeError", data |-> <<>>]
        ELSE [error |-> "none", data |-> Flattened(parsed.data, ml)]

----------------------------------------------------------------------------
(* The vocabulary, lines 226-231 *)

Range(f) == {f[k] : k \in DOMAIN f}

\* ord(c) of the characters tokens are made of
Ord == [c \in {".", "?", "a", "b", "c"} |->
            CASE c = "." -> 46 [] c = "?" -> 63 [] c = "a" -> 97
              [] c = "b" -> 98 [] c = "c" -> 99]

\* x < y for two Python 2 str values
RECURSIVE StrLess(_, _)
StrLess(x, y) ==
    IF y = <<>> THEN FALSE
    ELSE IF x = <<>> THEN TRUE
    ELSE IF Ord[Head(x)] # Ord[Head(y)] THEN Ord[Head(x)] < Ord[Head(y)]
    ELSE StrLess(Tail(x), Tail(y))

\* sorted(S) of a set of str
RECURSIVE sorted(_)
sorted(S) ==
    IF S = {} THEN <<>>
    ELSE LET least == CHOOSE x \in S : \A y \in S \ {x} : StrLess(x, y)
         IN  <<least>> \o sorted(S \ {least})

\* set(story + q + [answer])
TripleTokens(t) == Range(t[1]) \cup Range(t[2]) \cup {t[3]}

\* line 226: vocab = sorted(reduce(lambda x, y: x | y, (set(...) for ... in train + test)))
VocabOf(tr, te) == sorted(UNION {TripleTokens((tr \o te)[k]) : k \in 1..Len(tr \o te)})

\* The mutant of WordIdxOf: dict((c, i) for i, c in enumerate(vocab)).
WordIdxFromZero(v) ==
    [c \in Range(v) |-> (CHOOSE i \in 0..(Len(v) - 1) :
                             /\ PyIndex(v, i) = c
                             /\ \A m \in (i + 1)..(Len(v) - 1) : PyIndex(v, m) # c)]

\* line 229: word_idx = dict((c, i + 1) for i, c in enumerate(vocab)); of
\* two pairs with the same key a dict keeps the later.
WordIdxOf(v) ==
    [c \in Range(v) |-> (CHOOSE i \in 0..(Len(v) - 1) :
                             /\ PyIndex(v, i) = c
                             /\ \A m \in (i + 1)..(Len(v) - 1) : PyIndex(v, m) # c) + 1]

Max(S) == CHOOSE x \in S : \A y \in S : y <= x

\* lines 230-231: max(map(len, (x for x, _, _ in train + test)))
MaxLenOf(d, field) == Max({Len(d[k][field]) : k \in 1..Len(d)})

----------------------------------------------------------------------------
(* vectorize_stories, lines 152-164 *)

Zeros(n) == [k \in 1..n |-> 0]

\* keras.preprocessing.sequence.pad_sequences(sequences, maxlen) with its
\* defaults padding='pre', truncating='pre', value=0: a row keeps the last
\* maxlen entries of its sequence and is filled with 0 on the left.
pad_row(s, maxlen) ==
    LET trunc == IF Len(s) > maxlen THEN SubSeq(s, Len(s) - maxlen + 1, Len(s)) ELSE s
    IN  Zeros(maxlen - Len(trunc)) \o trunc

pad_sequences(seqs, maxlen) == [k \in 1..Len(seqs) |-> pad_row(seqs[k], maxlen)]

\* [word_idx[w] for w in ws]
Indexed(ws, w_idx) == [k \in 1..Len(ws) |-> w_idx[ws[k]]]

\* The mutant of OneHot: y[word_idx[answer] - 1] = 1.
OneHotOffByOne(n, i) == [k \in 1..(n + 1) |-> IF k - 1 = i - 1 THEN 1 ELSE 0]

\* lines 159-160: y = np.zeros(len(word_idx) + 1); y[word_idx[answer]] = 1
\* (entry k of the sequence is y[k - 1])
OneHot(n, i) == [k \in 1..(n + 1) |-> IF k - 1 = i THEN 1 ELSE 0]

\* A lookup of lines 157, 158 or 160 raises KeyError.
VectorizeRaises(d, w_idx) ==
    \E k \in 1..Len(d) : \E w \in TripleTokens(d[k]) : w \notin DOMAIN w_idx

\* The mutant of vectorize_stories: the two maximum lengths exchanged.
vectorize_stories_swapped(d, w_idx, s_maxlen, q_maxlen) ==
    [X |-> pad_sequences([k \in 1..Len(d) |-> Indexed(d[k][1], w_idx)], q_maxlen),
     Xq |-> pad_sequences([k \in 1..Len(d) |-> Indexed(d[k][2], w_idx)], s_maxlen),
     Y |-> [k \in 1..Len(d) |-> OneHot(Cardinality(DOMAIN w_idx), w_idx[d[k][3]])]]

\* lines 152-164
vectorize_stories(d, w_idx, s_maxlen, q_maxlen) ==
    [X |-> pad_sequences([k \in 1..Len(d) |-> Indexed(d[k][1], w_idx)], s_maxlen),
     Xq |-> pad_sequences([k \in 1..Len(d) |-> Indexed(d[k][2], w_idx)], q_maxlen),
     Y |-> [k \in 1..Len(d) |-> OneHot(Cardinality(DOMAIN w_idx), w_idx[d[k][3]])]]

----------------------------------------------------------------------------
(* The notebook's cells, lines 195-387 *)

ManualMessage == "Error downloading dataset, please download it manually"

\* What get_file may raise; the bare except of line 197 catches any of it.
DownloadErrors == {"Exception", "KeyboardInterrupt"}

MaxFileLines == 2

PipeNarratives == { <<"a">>, <<"b", " ", "a">> }
PipeQuestions ==
    { <<"b", "?", "\t", "c", "\t", "1">>,
      <<"a", " ", "b", "?", "\t", "a", "\t", "1">> }
PipeTexts == PipeNarratives \cup PipeQuestions

\* The files of at most n lines, each line numbered on from the one before
\* it or numbered 1.
RECURSIVE FilesUpTo(_)
FilesUpTo(n) ==
    IF n = 0 THEN {<<>>}
    ELSE LET shorter == FilesUpTo(n - 1)
             longest == {f \in shorter : Len(f) = n - 1}
             nids(f) == IF f = <<>> THEN {1} ELSE {1, Nid(f[Len(f)]) + 1}
         IN  shorter \cup
             UNION {{Append(f, <<Digits[m + 1], " ">> \o t \o <<"\n">>) :
                        m \in nids(f), t \in PipeTexts} : f \in longest}

AskStories == { <<"a">>, <<"b", " ", "a">>, <<"a", " ", "b", " ", "a">> }
AskQueries == { <<"b">>, <<"a", " ", "b">> }

\* The run is about to enter the try of line 195.
Init ==
    /\ TokIdle
    /\ ParseIdle
    /\ RunIdle
    /\ pc = "download"
    /\ trainFile \in FilesUpTo(MaxFileLines)
    /\ testFile \in FilesUpTo(MaxFileLines)
    /\ train = <<>>
    /\ test = <<>>
    /\ vocab = <<>>
    /\ vocab_size = 0
    /\ word_idx = NoDict
    /\ story_maxlen = 0
    /\ query_maxlen = 0

\* line 196: get_file returns the path of the tarball.
DownloadReturns ==
    /\ pc = "download"
    /\ path' = "babi-tasks-v1-2.tar.gz"
    /\ pc' = "untar"
    /\ UNCHANGED <<printed, caught, uncaught, tar, trainFile, testFile,
                   globalVars, vecVars, askVars, tokVars, parseVars>>

\* lines 196-197: get_file raises and the except clause catches it.
DownloadRaises ==
    /\ pc = "download"
    /\ \E e \in DownloadErrors : caught' = e
    /\ pc' = "except"
    /\ UNCHANGED <<printed, uncaught, path, tar, trainFile, testFile,
                   globalVars, vecVars, askVars, tokVars, parseVars>>

\* lines 198-200: the handler prints the instruction.
HandlerPrints ==
    /\ pc = "except"
    /\ printed' = Append(printed, ManualMessage)
    /\ pc' = "reraise"
    /\ UNCHANGED <<caught, uncaught, path, tar, trainFile, testFile,
                   globalVars, vecVars, askVars, tokVars, parseVars>>

\* The mutant of Reraise: the handler ends without raising and the run goes on.
Swallow(e) == [pc |-> "untar", uncaught |-> "none"]

\* line 201: raise, the caught exception again; nothing catches it.
Reraise(e) == [pc |-> "terminated", uncaught |-> e]

HandlerReraises ==
    /\ pc = "reraise"
    /\ pc' = Reraise(caught).pc
    /\ uncaught' = Reraise(caught).uncaught
    /\ UNCHANGED <<printed, caught, path, tar, trainFile, testFile,
                   globalVars, vecVars, askVars, tokVars, parseVars>>

\* line 214: tar = tarfile.open(path)
Untar ==
    /\ pc = "untar"
    /\ tar' = "open"
    /\ pc' = "get_train"
    /\ UNCHANGED <<printed, caught, uncaught, path, trainFile, testFile,
                   globalVars, vecVars, askVars, tokVars, parseVars>>

\* line 223: train = get_stories(tar.extractfile(challenge.format('train')))
GetTrain ==
    /\ pc = "get_train"
    /\ LET r == get_stories(trainFile, FALSE, 0)
       IN  IF r.error # "none"
           THEN /\ uncaught' = r.error
                /\ pc' = "terminated"
                /\ UNCHANGED train
           ELSE /\ train' = r.data
                /\ pc' = "get_test"
                /\ UNCHANGED uncaught
    /\ UNCHANGED <<printed, caught, path, tar, trainFile, testFile, test, vocab,
                   vocab_size, word_idx, story_maxlen, query_maxlen,
                   vecVars, askVars, tokVars, parseVars>>

\* line 224: test = get_stories(tar.extractfile(challenge.format('test')))
GetTest ==
    /\ pc = "get_test"
    /\ LET r == get_stories(testFile, FALSE, 0)
       IN  IF r.error # "none"
           THEN /\ uncaught' = r.error
                /\ pc' = "terminated"
                /\ UNCHANGED test
           ELSE /\ test' = r.data
                /\ pc' = "vocab"
                /\ UNCHANGED uncaught
    /\ UNCHANGED <<printed, caught, path, tar, trainFile, testFile, train, vocab,
                   vocab_size, word_idx, story_maxlen, query_maxlen,
                   vecVars, askVars, tokVars, parseVars>>

\* lines 226-231; reduce of line 226 raises TypeError when train + test is
\* empty.
BuildVocab ==
    /\ pc = "vocab"
    /\ IF train \o test = <<>>
       THEN /\ uncaught' = "TypeError"
            /\ pc' = "terminated"
            /\ UNCHANGED <<vocab, vocab_size, word_idx, story_maxlen, query_maxlen>>
       ELSE /\ vocab' = VocabOf(train, test)
            /\ vocab_size' = Len(VocabOf(train, test)) + 1
            /\ word_idx' = WordIdxOf(VocabOf(train, test))
            /\ story_maxlen' = MaxLenOf(train \o test, 1)
            /\ query_maxlen' = MaxLenOf(train \o test, 2)
            /\ pc' = "vectorize_train"
            /\ UNCHANGED uncaught
    /\ UNCHANGED <<printed, caught, path, tar, trainFile, testFile, train, test,
                   vecVars, askVars, tokVars, parseVars>>

\* line 233: X, Xq, Y = vectorize_stories(train, word_idx, story_maxlen, query_maxlen)
VectorizeTrain ==
    /\ pc = "vectorize_train"
    /\ IF VectorizeRaises(train, word_idx)
       THEN /\ uncaught' = "KeyError"
            /\ pc' = "terminated"
            /\ UNCHANGED <<X, Xq, Y>>
       ELSE /\ X' = vectorize_stories(train, word_idx, story_maxlen, query_maxlen).X
            /\ Xq' = vectorize_stories(train, word_idx, story_maxlen, query_maxlen).Xq
            /\ Y' = vectorize_stories(train, word_idx, story_maxlen, query_maxlen).Y
            /\ pc' = "vectorize_test"
            /\ UNCHANGED uncaught
    /\ UNCHANGED <<printed, caught, path, tar, trainFile, testFile, globalVars,
                   tX, tXq, tY, askVars, tokVars, parseVars>>

\* line 234: tX, tXq, tY = vectorize_stories(test, word_idx, story_maxlen, query_maxlen)
VectorizeTest ==
    /\ pc = "vectorize_test"
    /\ IF VectorizeRaises(test, word_idx)
       THEN /\ uncaught' = "KeyError"
            /\ pc' = "terminated"
            /\ UNCHANGED <<tX, tXq, tY>>
       ELSE /\ tX' = vectorize_stories(test, word_idx, story_maxlen, query_maxlen).X
            /\ tXq' = vectorize_stories(test, word_idx, story_maxlen, query_maxlen).Xq
            /\ tY' = vectorize_stories(test, word_idx, story_maxlen, query_maxlen).Y
            /\ pc' = "model"
            /\ UNCHANGED uncaught
    /\ UNCHANGED <<printed, caught, path, tar, trainFile, testFile, globalVars,
                   X, Xq, Y, askVars, tokVars, parseVars>>

\* lines 263-343: the model is built, trained and evaluated by the library;
\* none of the variables of this model is written.
BuildAndTrain ==
    /\ pc = "model"
    /\ pc' = "ask"
    /\ UNCHANGED <<printed, caught, uncaught, path, tar, trainFile, testFile,
                   globalVars, vecVars, askVars, tokVars, parseVars>>

\* lines 359-360 of ask_qa(story, query): a token that word_idx lacks raises
\* KeyError.
AskQa ==
    /\ pc = "ask"
    /\ \E s \in AskStories, q \in AskQueries :
        /\ ask_story' = s
        /\ ask_query' = q
        /\ IF \E w \in Range(tokenize(s)) \cup Range(tokenize(q)) : w \notin DOMAIN word_idx
           THEN /\ uncaught' = "KeyError"
                /\ pc' = "terminated"
                /\ UNCHANGED <<t_story, t_query>>
           ELSE /\ t_story' = pad_sequences(<<Indexed(tokenize(s), word_idx)>>, story_maxlen)
                /\ t_query' = pad_sequences(<<Indexed(tokenize(q), word_idx)>>, query_maxlen)
                /\ pc' = "predict"
                /\ UNCHANGED uncaught
    /\ UNCHANGED <<printed, caught, path, tar, trainFile, testFile, globalVars,
                   vecVars, tokVars, parseVars>>

Next ==
    \/ DownloadReturns
    \/ DownloadRaises
    \/ HandlerPrints
    \/ HandlerReraises
    \/ Untar
    \/ GetTrain
    \/ GetTest
    \/ BuildVocab
    \/ VectorizeTrain
    \/ VectorizeTest
    \/ BuildAndTrain
    \/ AskQa

Spec == Init /\ [][Next]_vars

----------------------------------------------------------------------------
(* vectorize_stories and ask_qa on any data, vocabulary and maximum lengths *)

MaxStoryLen == 2
MaxPadLen == 2

VecTokens == { <<"a">>, <<"b">> }
VecQueries == { <<<<"b">>>>, <<<<"a">>, <<"b">>>> }
VecTriples ==
    {<<st, q, a>> : st \in SeqsUpTo(VecTokens, MaxStoryLen), q \in VecQueries, a \in VecTokens}
VecDatas ==
    {<<>>} \cup {<<t>> : t \in VecTriples} \cup {<<t, u>> : t \in VecTriples, u \in VecTriples}

\* The run is about to call vectorize_stories at line 233.
VecInit ==
    /\ TokIdle
    /\ ParseIdle
    /\ RunIdle
    /\ pc = "vectorize_train"
    /\ trainFile = <<>>
    /\ testFile = <<>>
    /\ train \in VecDatas
    /\ test = <<>>
    /\ vocab \in {sorted(S) : S \in SUBSET VecTokens}
    /\ vocab_size = Len(vocab) + 1
    /\ word_idx = WordIdxOf(vocab)
    /\ story_maxlen \in 1..MaxPadLen
    /\ query_maxlen \in 1..MaxPadLen

VecNext ==
    \/ VectorizeTrain
    \/ VectorizeTest
    \/ BuildAndTrain
    \/ AskQa

SpecVec == VecInit /\ [][VecNext]_vars

----------------------------------------------------------------------------
(* Properties of the vectorizer *)

\* row is seq padded to maxlen: exactly maxlen long and, when seq is
\* shorter, seq itself at the right end with 0 in every position before it.
IsPaddedRow(row, seq, maxlen) ==
    /\ Len(row) = maxlen
    /\ Len(seq) < maxlen =>
        /\ SubSeq(row, maxlen - Len(seq) + 1, maxlen) = seq
        /\ \A k \in 1..(maxlen - Len(seq)) : row[k] = 0

\* vectorize_stories(train, ...) has returned.
TrainVectorized ==
    pc \in {"vectorize_test", "model", "ask", "predict"} \/ ask_story # <<>>

\* C3: every row the padding step gives is exactly as long as the configured
\* maximum, and a sequence shorter than the maximum is unchanged at the
\* right end of its row, after zeros; in vectorize_stories and in ask_qa.
C3_RowsPaddedToMaxlen ==
    /\ TrainVectorized =>
        /\ Len(X) = Len(train) /\ Len(Xq) = Len(train)
        /\ \A k \in 1..Len(train) :
            /\ IsPaddedRow(X[k], Indexed(train[k][1], word_idx), story_maxlen)
            /\ IsPaddedRow(Xq[k], Indexed(train[k][2], word_idx), query_maxlen)
    /\ pc = "predict" =>
        /\ Len(t_story) = 1 /\ Len(t_query) = 1
        /\ IsPaddedRow(t_story[1], Indexed(tokenize(ask_story), word_idx), story_maxlen)
        /\ IsPaddedRow(t_query[1], Indexed(tokenize(ask_query), word_idx), query_maxlen)

\* A story shorter than story_maxlen was padded, a query as long as
\* query_maxlen was not, and ask_qa was given a story longer than
\* story_maxlen.
C3_Witness ==
    /\ pc = "predict"
    /\ story_maxlen # query_maxlen
    /\ Len(tokenize(ask_story)) > story_maxlen
    /\ \E k \in 1..Len(train) :
        /\ Len(train[k][1]) \in 1..(story_maxlen - 1)
        /\ Len(train[k][2]) = query_maxlen

RECURSIVE Sum(_)
Sum(row) == IF row = <<>> THEN 0 ELSE Head(row) + Sum(Tail(row))

\* C4: the answer vector of every triple is len(word_idx) + 1 long, holds 1
\* at word_idx[answer] and 0 elsewhere: it sums to 1 and its position 0 is 0.
C4_AnswerVectorOneHot ==
    TrainVectorized =>
        /\ Len(Y) = Len(train)
        /\ \A k \in 1..Len(train) :
            /\ Len(Y[k]) = Cardinality(DOMAIN word_idx) + 1
            /\ \A j \in 0..(Len(Y[k]) - 1) :
                PyIndex(Y[k], j) = (IF j = word_idx[train[k][3]] THEN 1 ELSE 0)
            /\ Sum(Y[k]) = 1
            /\ PyIndex(Y[k], 0) = 0

\* Two triples with different answers were vectorized.
C4_Witness ==
    /\ TrainVectorized
    /\ Len(train) = 2
    /\ train[1][3] # train[2][3]
    /\ Y[1] # Y[2]

----------------------------------------------------------------------------
(* Properties of the cells *)

DownloadFailed == caught # "none"

NoLaterStepRan ==
    /\ path = "none" /\ tar = "none"
    /\ train = <<>> /\ test = <<>>
    /\ vocab = <<>> /\ word_idx = NoDict
    /\ X = <<>> /\ tX = <<>>
    /\ t_story = <<>>

\* C8: a failed download is caught, the instruction is printed, the same
\* exception is raised again and ends the run before any later step; a
\* download that succeeds prints nothing from the handler, and no other
\* exception is handled.
C8_DownloadFailureReraised ==
    /\ DownloadFailed =>
        /\ pc \in {"except", "reraise", "terminated"}
        /\ NoLaterStepRan
    /\ (DownloadFailed /\ pc = "terminated") =>
        /\ printed = <<ManualMessage>>
        /\ uncaught = caught
    /\ ~DownloadFailed => printed = <<>>
    /\ pc = "terminated" => uncaught # "none" /\ ~ENABLED Next

\* The run has ended on the exception get_file raised.
C8_Witness ==
    /\ pc = "terminated"
    /\ caught = "Exception"
    /\ uncaught = "Exception"
    /\ printed = <<ManualMessage>>

AllTokens == UNION {TripleTokens((train \o test)[k]) : k \in 1..Len(train \o test)}

VocabBuilt == pc \in {"vectorize_train", "vectorize_test", "model", "ask", "predict"} \/ ask_story # <<>>

\* The zeros of the row are exactly its padding: the row is as many zeros
\* as the sequence falls short of maxlen, then indices that are not 0.
ZeroOnlyAsPadding(row, seq, maxlen) ==
    \A k \in 1..Len(row) : (row[k] = 0) <=> (k <= maxlen - Len(seq))

\* C10: word_idx maps the distinct tokens of train + test one-to-one onto
\* 1..len(vocab), vocab_size is len(vocab) + 1, no token has index 0, so a 0
\* in a vectorized row is padding, and vectorizing train and test raises no
\* KeyError.
C10_VocabularyIndexDense ==
    /\ VocabBuilt =>
        /\ DOMAIN word_idx = AllTokens
        /\ {word_idx[w] : w \in DOMAIN word_idx} = 1..Len(vocab)
        /\ \A v, w \in DOMAIN word_idx : word_idx[v] = word_idx[w] => v = w
        /\ Len(vocab) = Cardinality(AllTokens)
        /\ vocab_size = Cardinality(AllTokens) + 1
    /\ uncaught = "KeyError" => ask_story # <<>>
    /\ (pc \in {"model", "ask", "predict"} \/ ask_story # <<>>) =>
        /\ \A k \in 1..Len(train) :
            /\ ZeroOnlyAsPadding(X[k], train[k][1], story_maxlen)
            /\ ZeroOnlyAsPadding(Xq[k], train[k][2], query_maxlen)
        /\ \A k \in 1..Len(test) :
            /\ ZeroOnlyAsPadding(tX[k], test[k][1], story_maxlen)
            /\ ZeroOnlyAsPadding(tXq[k], test[k][2], query_maxlen)

\* Train and test were vectorized, the test triple holding a token that no
\* training triple holds and a story shorter than the training story.
C10_Witness ==
    /\ pc = "model"
    /\ Len(train) = 1 /\ Len(test) = 1
    /\ TripleTokens(test[1]) \ TripleTokens(train[1]) # {}
    /\ Len(test[1][1]) < Len(train[1][1])

====
